---- MODULE Spec2Model ----
(***************************************************************************)
(* Model of the inference driver of src/inference.py (the __main__ block,  *)
(* lines 308-352): command-line configuration, dataset and DataLoader      *)
(* construction, checkpoint loading, and the batch loop that generates,    *)
(* decodes and appends predictions to inference_results.txt.               *)
(*                                                                         *)
(* The tokenizer, the dataset class and the T5 model are external; they    *)
(* are represented by the operators Tokenize, GenerateRow and Decode.      *)
(* One process run is modelled from line 310 to the end of the loop or to  *)
(* the first uncaught exception; StartRun launches the program again on    *)
(* the same results file.                                                  *)
(***************************************************************************)
EXTENDS Integers, Sequences, FiniteSets, TLC

(* ------------------------------ bounds --------------------------------- *)

\* The input holds at most MaxFullBatches full batches, give or take Slack lines.
MaxFullBatches == 2

\* Input sizes are taken within Slack lines of a multiple of the batch size.
Slack == 1

\* The program is launched at most MaxRuns times on the same results file.
MaxRuns == 2

\* Number of distinct output sequences the generation model produces.
NumOutputs == 7

(* ------------------------- program constants --------------------------- *)

\* DataLoader(input_data, batch_size=32, num_workers=4), line 330
BatchSize == 32

\* DataLoader(..., num_workers=4), line 330
NumWorkers == 4

\* model.model.generate(..., max_length=128), line 346
MaxLength == 128

\* --eval_batch_size default, line 79
DefaultEvalBatchSize == 16

\* --max_seq_length default, line 69
DefaultMaxSeqLength == 128

\* Values of --eval_batch_size given on the command line (type=int, line 80).
EvalBatchSizes == {DefaultEvalBatchSize, BatchSize}

\* Values of --max_seq_length given on the command line (type=int, line 69).
MaxSeqLengths == {DefaultMaxSeqLength, DefaultMaxSeqLength \div 2}

\* init_args(): the parsed configuration (only the options the loop could use).
ArgsSpace == [eval_batch_size : EvalBatchSizes, max_seq_length : MaxSeqLengths]

\* State of the --ckpt artifact on disk.
CkptStates == {"valid", "missing", "corrupt", "bad_state_dict"}

\* State of the --file_path input on disk.
InputStates == {"readable", "unreadable"}

\* Number of lines of the input file.
InputSizes ==
  {n \in 0..(MaxFullBatches * BatchSize + Slack) :
     \E b \in 0..MaxFullBatches :
       \E d \in (0 - Slack)..Slack : n = b * BatchSize + d}

\* Content of inference_results.txt before the first run (absent, or left over).
InitialFiles == {<< >>, << -1 >>}

VARIABLES
  args,        \* parsed command line (init_args)
  ckpt,        \* state of the checkpoint file
  input_file,  \* state of the input file
  num_lines,   \* number of examples in the input file
  file,        \* lines of inference_results.txt
  run,         \* how many times the program has been launched
  pc,          \* position of the driver
  input_data,  \* MyDataset: source ids per example (<< >> before it is built)
  k,           \* number of batches taken from the data loader in this run
  batch,       \* indices of the examples of the current batch
  gen_max_length, \* max_length of the generate call in flight (0: none)
  outs,        \* generated ids of the current batch
  dec,         \* decoded strings of the current batch
  produced,    \* batches the loader's worker processes have collated
  error,       \* the exception that ended the run ("none": none)
  file0,       \* history: the results file when this run started
  prev0,       \* history: the results file when the previous run started
  prev_error,  \* history: the exception that ended the previous run
  log,         \* history: phases the driver entered in this run, in order
  taken        \* history: the batches taken in this run, in order

vars == << args, ckpt, input_file, num_lines, file, run, pc, input_data, k,
           batch, gen_max_length, outs, dec, produced, error, file0, prev0,
           prev_error, log, taken >>

(* ------------------------------ helpers -------------------------------- *)

Min(a, b) == IF a < b THEN a ELSE b

IsPrefix(s, t) == Len(s) <= Len(t) /\ SubSeq(t, 1, Len(s)) = s

\* The tokenizer's encoding of input line i (distinct sentences, distinct
\* ids), ending in the EOS token.
Tokenize(i) == i * 2 + 1

\* model.model.generate for one row: output ids ending in the EOS token.
\* Distinct inputs may be given the same output.
GenerateRow(ids) == ((ids \div 2) % NumOutputs) * 2 + 1

\* tokenizer.decode(ids, skip_special_tokens=True): the EOS token is dropped.
Decode(ids) == ids \div 2

\* The batch count of a loader that drops the incomplete batch.
NumBatches_Floor(n) == n \div BatchSize

\* len(data_loader): drop_last is False.
NumBatches(n) == (n + BatchSize - 1) \div BatchSize

\* A DataLoader with drop_last=True, as train_dataloader builds it.
BatchIndices_DropLast(j, n) ==
  IF j * BatchSize <= n
    THEN [i \in 1..BatchSize |-> (j - 1) * BatchSize + i]
    ELSE << >>

\* The j-th index list the sequential batch sampler yields over n examples.
BatchIndices(j, n) ==
  [i \in 1..(Min(j * BatchSize, n) - (j - 1) * BatchSize) |-> (j - 1) * BatchSize + i]

\* The worker process that collates batch j (round-robin assignment).
WorkerOf(j) == ((j - 1) % NumWorkers) + 1

Event(ph, b) == [ph |-> ph, k |-> b]

LoopPcs == {"ENCODE", "GENERATE", "GENERATING", "DECODE", "APPEND_TO_OUTPUT"}

(* ------------------------------- Init ---------------------------------- *)

Init ==
  /\ args \in ArgsSpace
  /\ ckpt \in CkptStates
  /\ input_file \in InputStates
  /\ num_lines \in InputSizes
  /\ (input_file = "unreadable" => num_lines = 0)
  /\ file \in InitialFiles
  /\ run = 1
  /\ pc = "LOAD_INPUT"
  /\ input_data = << >>
  /\ k = 0
  /\ batch = << >>
  /\ gen_max_length = 0
  /\ outs = << >>
  /\ dec = << >>
  /\ produced = {}
  /\ error = "none"
  /\ file0 = file
  /\ prev0 = file
  /\ prev_error = "none"
  /\ log = << >>
  /\ taken = << >>

(* ------------------------------ actions -------------------------------- *)

\* An uncaught exception: the traceback is printed and the process exits.
Raise(what) ==
  /\ pc' = "ABORTED"
  /\ error' = what
  /\ log' = Append(log, Event("ABORT", k))

\* Lines 323-330: MyDataset(...) and DataLoader(...). The dataset class is
\* imported (line 16): it reads the file either when it is constructed, or
\* when the loader first asks for its length and items (line 342).
LoadInput ==
  /\ pc = "LOAD_INPUT"
  /\ \/ /\ input_file = "readable"
        /\ input_data' = [i \in 1..num_lines |-> Tokenize(i)]
        /\ pc' = "LOAD_CHECKPOINT"
        /\ log' = Append(log, Event("LOAD_INPUT", 0))
        /\ error' = error
     \/ /\ input_file = "unreadable"
        /\ input_data' = input_data
        /\ pc' = "ABORTED"
        /\ error' = "input"
        /\ log' = log \o << Event("LOAD_INPUT", 0), Event("ABORT", 0) >>
     \/ /\ input_file = "unreadable"
        /\ input_data' = input_data
        /\ pc' = "LOAD_CHECKPOINT"
        /\ log' = Append(log, Event("LOAD_INPUT", 0))
        /\ error' = error
  /\ UNCHANGED << args, ckpt, input_file, num_lines, file, run, k, batch,
                  gen_max_length, outs, dec, produced, file0, prev0, taken , prev_error >>

\* The load wrapped in a handler that ignores the exception.
TorchLoad_IgnoreFailure ==
  /\ pc = "LOAD_CHECKPOINT"
  /\ pc' = "LOAD_STATE_DICT"
  /\ error' = error
  /\ log' = Append(log, Event("LOAD_CHECKPOINT", 0))
  /\ UNCHANGED << args, ckpt, input_file, num_lines, file, run, input_data, k,
                  batch, gen_max_length, outs, dec, produced, file0, prev0,
                  prev_error, taken >>

\* Lines 332-333: torch.load(args.ckpt).
TorchLoad ==
  /\ pc = "LOAD_CHECKPOINT"
  /\ IF ckpt \in {"missing", "corrupt"}
       THEN /\ pc' = "ABORTED"
            /\ error' = "checkpoint"
            /\ log' = log \o << Event("LOAD_CHECKPOINT", 0), Event("ABORT", 0) >>
       ELSE /\ pc' = "LOAD_STATE_DICT"
            /\ error' = error
            /\ log' = Append(log, Event("LOAD_CHECKPOINT", 0))
  /\ UNCHANGED << args, ckpt, input_file, num_lines, file, run, input_data, k,
                  batch, gen_max_length, outs, dec, produced, file0, prev0,
                  taken , prev_error >>

\* Lines 334-341: T5FineTuner(hparams), load_state_dict, to(device), eval.
LoadStateDict ==
  /\ pc = "LOAD_STATE_DICT"
  /\ IF ckpt = "bad_state_dict"
       THEN Raise("checkpoint")
       ELSE /\ pc' = "ENCODE"
            /\ error' = error
            /\ log' = log
  /\ UNCHANGED << args, ckpt, input_file, num_lines, file, run, input_data, k,
                  batch, gen_max_length, outs, dec, produced, file0, prev0,
                  taken , prev_error >>

\* Line 330/342: a worker process of the loader collates one of its batches,
\* ahead of the driver; each worker yields its batches in order.
Prefetch(j) ==
  /\ pc \in LoopPcs
  /\ j \in 1..NumBatches(Len(input_data))
  /\ j \notin produced
  /\ \A i \in 1..(j - 1) : WorkerOf(i) = WorkerOf(j) => i \in produced
  /\ produced' = produced \cup {j}
  /\ UNCHANGED << args, ckpt, input_file, num_lines, file, run, pc, input_data,
                  k, batch, gen_max_length, outs, dec, error, file0, prev0, log,
                  taken , prev_error >>

\* Line 342: iterating the loader over a dataset whose file cannot be read
\* raises before any batch is delivered.
FetchFail ==
  /\ pc = "ENCODE"
  /\ input_file = "unreadable"
  /\ Raise("input")
  /\ UNCHANGED << args, ckpt, input_file, num_lines, file, run, input_data, k,
                  batch, gen_max_length, outs, dec, produced, file0, prev0,
                  prev_error, taken >>

\* Line 342: the loop takes the next batch, in order, once a worker has it.
Encode ==
  /\ pc = "ENCODE"
  /\ input_file = "readable"
  /\ k < NumBatches(Len(input_data))
  /\ (k + 1) \in produced
  /\ k' = k + 1
  /\ batch' = BatchIndices(k + 1, Len(input_data))
  /\ taken' = Append(taken, batch')
  /\ pc' = "GENERATE"
  /\ log' = Append(log, Event("ENCODE", k + 1))
  /\ UNCHANGED << args, ckpt, input_file, num_lines, file, run, input_data,
                  gen_max_length, outs, dec, produced, error, file0, prev0 , prev_error >>

\* Line 342: the loader is exhausted, the loop and the program end.
Finish ==
  /\ pc = "ENCODE"
  /\ input_file = "readable"
  /\ k = NumBatches(Len(input_data))
  /\ pc' = "DONE"
  /\ log' = Append(log, Event("DONE", 0))
  /\ UNCHANGED << args, ckpt, input_file, num_lines, file, run, input_data, k,
                  batch, gen_max_length, outs, dec, produced, error, file0,
                  prev0, taken , prev_error >>

\* Lines 343-347: the tensors go to the device and generate is called.
GenerateCall ==
  /\ pc = "GENERATE"
  /\ gen_max_length' = MaxLength
  /\ pc' = "GENERATING"
  /\ log' = Append(log, Event("GENERATE", k))
  /\ UNCHANGED << args, ckpt, input_file, num_lines, file, run, input_data, k,
                  batch, outs, dec, produced, error, file0, prev0, taken , prev_error >>

\* The generated ids written as they are, without the decoding step.
GenerateReturn_NoDecode ==
  /\ pc = "GENERATING"
  /\ outs' = [j \in 1..Len(batch) |-> GenerateRow(input_data[batch[j]])]
  /\ dec' = outs'
  /\ gen_max_length' = 0
  /\ pc' = "APPEND_TO_OUTPUT"
  /\ UNCHANGED << args, ckpt, input_file, num_lines, file, run, input_data, k,
                  batch, produced, error, file0, prev0, prev_error, log,
                  taken >>

\* Line 343: generate returns one output row per input row.
GenerateReturn ==
  /\ pc = "GENERATING"
  /\ outs' = [j \in 1..Len(batch) |-> GenerateRow(input_data[batch[j]])]
  /\ gen_max_length' = 0
  /\ pc' = "DECODE"
  /\ UNCHANGED << args, ckpt, input_file, num_lines, file, run, input_data, k,
                  batch, dec, produced, error, file0, prev0, log, taken , prev_error >>

\* A handler that swallows the failure and moves on to the next batch.
GenerateFail_Skip ==
  /\ pc = "GENERATING"
  /\ gen_max_length' = 0
  /\ pc' = "ENCODE"
  /\ error' = "generate"
  /\ log' = Append(log, Event("ABORT", k))
  /\ UNCHANGED << args, ckpt, input_file, num_lines, file, run, input_data, k,
                  batch, outs, dec, produced, file0, prev0, taken , prev_error >>

\* Line 343: generate raises (out of memory, device error); nothing catches it.
GenerateFail ==
  /\ pc = "GENERATING"
  /\ gen_max_length' = 0
  /\ Raise("generate")
  /\ UNCHANGED << args, ckpt, input_file, num_lines, file, run, input_data, k,
                  batch, outs, dec, produced, file0, prev0, taken , prev_error >>

\* Line 348: every output row is decoded.
DecodeBatch ==
  /\ pc = "DECODE"
  /\ dec' = [j \in 1..Len(outs) |-> Decode(outs[j])]
  /\ pc' = "APPEND_TO_OUTPUT"
  /\ log' = Append(log, Event("DECODE", k))
  /\ UNCHANGED << args, ckpt, input_file, num_lines, file, run, input_data, k,
                  batch, gen_max_length, outs, produced, error, file0, prev0,
                  taken , prev_error >>

\* Decoding and writing fused in one loop: the rows decoded before the
\* failing one have already been written.
DecodeFail_PartialWrite ==
  /\ pc = "DECODE"
  /\ file' = Append(file, Decode(outs[1]))
  /\ pc' = "ABORTED"
  /\ error' = "decode"
  /\ log' = log \o << Event("DECODE", k), Event("ABORT", k) >>
  /\ UNCHANGED << args, ckpt, input_file, num_lines, run, input_data, k,
                  batch, gen_max_length, outs, dec, produced, file0, prev0,
                  prev_error, taken >>

\* Line 348: tokenizer.decode raises; nothing catches it.
DecodeFail ==
  /\ pc = "DECODE"
  /\ pc' = "ABORTED"
  /\ error' = "decode"
  /\ log' = log \o << Event("DECODE", k), Event("ABORT", k) >>
  /\ UNCHANGED << args, ckpt, input_file, num_lines, file, run, input_data, k,
                  batch, gen_max_length, outs, dec, produced, file0, prev0,
                  taken , prev_error >>

\* The file opened with "w": every batch overwrites the file.
AppendToOutput_Truncate ==
  /\ pc = "APPEND_TO_OUTPUT"
  /\ file' = dec
  /\ pc' = "ENCODE"
  /\ log' = Append(log, Event("APPEND_TO_OUTPUT", k))
  /\ UNCHANGED << args, ckpt, input_file, num_lines, run, input_data, k, batch,
                  gen_max_length, outs, dec, produced, error, file0, prev0,
                  taken , prev_error >>

\* The write dedented out of the for loop: only the last string is written.
AppendToOutput_LastOnly ==
  /\ pc = "APPEND_TO_OUTPUT"
  /\ file' = Append(file, dec[Len(dec)])
  /\ pc' = "ENCODE"
  /\ log' = Append(log, Event("APPEND_TO_OUTPUT", k))
  /\ UNCHANGED << args, ckpt, input_file, num_lines, run, input_data, k, batch,
                  gen_max_length, outs, dec, produced, error, file0, prev0,
                  taken , prev_error >>

\* The lines kept for a write after the loop: nothing reaches the file yet.
AppendToOutput_Deferred ==
  /\ pc = "APPEND_TO_OUTPUT"
  /\ pc' = "ENCODE"
  /\ log' = Append(log, Event("APPEND_TO_OUTPUT", k))
  /\ UNCHANGED << args, ckpt, input_file, num_lines, file, run, input_data, k,
                  batch, gen_max_length, outs, dec, produced, error, file0,
                  prev0, taken , prev_error >>

\* Lines 350-352: open("inference_results.txt", "a+"), one line per string.
AppendToOutput ==
  /\ pc = "APPEND_TO_OUTPUT"
  /\ file' = file \o dec
  /\ pc' = "ENCODE"
  /\ log' = Append(log, Event("APPEND_TO_OUTPUT", k))
  /\ UNCHANGED << args, ckpt, input_file, num_lines, run, input_data, k, batch,
                  gen_max_length, outs, dec, produced, error, file0, prev0,
                  taken , prev_error >>

\* The program is launched again, with the same command line and files; only
\* the results file carries over from the previous run.
StartRun ==
  /\ pc \in {"DONE", "ABORTED"}
  /\ run < MaxRuns
  /\ run' = run + 1
  /\ pc' = "LOAD_INPUT"
  /\ input_data' = << >>
  /\ k' = 0
  /\ batch' = << >>
  /\ gen_max_length' = 0
  /\ outs' = << >>
  /\ dec' = << >>
  /\ produced' = {}
  /\ error' = "none"
  /\ prev0' = file0
  /\ prev_error' = error
  /\ file0' = file
  /\ log' = << >>
  /\ taken' = << >>
  /\ UNCHANGED << args, ckpt, input_file, num_lines, file >>

Next ==
  \/ LoadInput
  \/ TorchLoad
  \/ LoadStateDict
  \/ \E j \in 1..(MaxFullBatches + 2) : Prefetch(j)
  \/ FetchFail
  \/ Encode
  \/ Finish
  \/ GenerateCall
  \/ GenerateReturn
  \/ GenerateFail
  \/ DecodeBatch
  \/ DecodeFail
  \/ AppendToOutput
  \/ StartRun

Spec == Init /\ [][Next]_vars

\* The loader's workers keep collating, the driver keeps executing its next
\* statement, and a generate call that was made returns or raises.
LiveSpec ==
  /\ Init
  /\ [][Next]_vars
  /\ WF_vars(\E j \in 1..(MaxFullBatches + 2) : Prefetch(j))
  /\ WF_vars(FetchFail)
  /\ WF_vars(Encode)
  /\ WF_vars(Finish)
  /\ WF_vars(GenerateCall)
  /\ WF_vars(GenerateReturn)
  /\ WF_vars(DecodeBatch)
  /\ WF_vars(AppendToOutput)

(* ------------------------------ claims --------------------------------- *)

\* The decoded prediction of input example i.
Prediction(i) == Decode(GenerateRow(Tokenize(i)))

\* The decoded predictions of examples a..b, in input order.
Preds(a, b) == [i \in 1..(b - a + 1) |-> Prediction(a + i - 1)]

HasEvent(ph, b) == \E i \in 1..Len(log) : log[i] = Event(ph, b)

BatchPhases == {"GENERATE", "GENERATING", "DECODE", "APPEND_TO_OUTPUT"}

\* C1: a run that reaches DONE has appended exactly one line per input
\* example, and the i-th appended line is the decoded prediction of the i-th
\* example, the examples of a short final batch included.
C1_OrderPreserved ==
  pc = "DONE" =>
    /\ Len(file) = Len(file0) + num_lines
    /\ \A i \in 1..num_lines : file[Len(file0) + i] = Prediction(i)

C1_Witness ==
  /\ pc = "DONE"
  /\ num_lines > BatchSize
  /\ num_lines % BatchSize # 0

\* C2: the results file is only appended to: what it held when the run
\* started stays a prefix of it in every state of the run, so that after two
\* complete runs it holds the first run's lines followed by the second run's.
C2_AppendOnly ==
  /\ IsPrefix(file0, file)
  /\ IsPrefix(prev0, file0)
  /\ (run >= 2 /\ pc = "DONE" /\ Len(file0) = Len(prev0) + num_lines) =>
       file = prev0 \o Preds(1, num_lines) \o Preds(1, num_lines)

C2_Witness ==
  /\ run = 2
  /\ pc = "DONE"
  /\ prev_error = "none"
  /\ Len(prev0) > 0
  /\ num_lines > BatchSize

\* C3: a generate failure on batch k ends the run: the failure is the last
\* thing the run does, no generate call is made twice for a batch, no batch
\* after k is taken and the file holds the lines of batches 1..k-1 only; the
\* next run starts from nothing and its first batch starts at example 1.
C3_AbortOnGenerateFailure ==
  /\ (error # "none") <=> (pc = "ABORTED")
  /\ \A i \in 1..Len(log) : log[i].ph = "ABORT" => i = Len(log)
  /\ \A i, j \in 1..Len(log) :
       (i < j /\ log[i].ph = "GENERATE" /\ log[j].ph = "GENERATE")
         => log[i].k < log[j].k
  /\ (pc = "ABORTED" /\ error = "generate") =>
       /\ Len(taken) = k
       /\ log[Len(log) - 1] = Event("GENERATE", k)
       /\ file = file0 \o Preds(1, (k - 1) * BatchSize)
  /\ (pc = "LOAD_INPUT") => (k = 0 /\ taken = << >> /\ log = << >>)
  /\ (Len(taken) >= 1) => taken[1][1] = 1

C3_Witness ==
  /\ run = 2
  /\ prev_error = "generate"
  /\ Len(file0) > Len(prev0)
  /\ pc = "GENERATING"
  /\ k = 1

BadStartup == ckpt # "valid" \/ input_file = "unreadable"

\* C4: with a missing or corrupt checkpoint or an unreadable input file, the
\* run never reaches a generate call and never changes the results file.
C4_FatalAtStartup ==
  BadStartup =>
    /\ file = file0
    /\ pc \notin (BatchPhases \cup {"DONE"})
    /\ gen_max_length = 0
    /\ \A i \in 1..Len(log) : log[i].ph \notin {"GENERATE", "DONE"}

C4_Witness ==
  /\ pc = "ABORTED"
  /\ error = "checkpoint"
  /\ ckpt = "corrupt"
  /\ input_file = "readable"
  /\ num_lines > 0
  /\ Len(file) > 0

\* The phase that may follow phase a in a run whose first two phases are
\* `first` and `second`.
Follows(a, b, first, second) ==
  \/ b.ph = "ABORT"
  \/ a.ph = first /\ b.ph = second
  \/ a.ph = second /\ b \in {Event("ENCODE", 1), Event("DONE", 0)}
  \/ a.ph = "ENCODE" /\ b = Event("GENERATE", a.k)
  \/ a.ph = "GENERATE" /\ b = Event("DECODE", a.k)
  \/ a.ph = "DECODE" /\ b = Event("APPEND_TO_OUTPUT", a.k)
  \/ a.ph = "APPEND_TO_OUTPUT" /\ b \in {Event("ENCODE", a.k + 1), Event("DONE", 0)}

PhaseOrder(first, second) ==
  /\ (Len(log) >= 1) => log[1].ph = first
  /\ \A i \in 1..(Len(log) - 1) : Follows(log[i], log[i + 1], first, second)

\* C5 as stated: LOAD_CHECKPOINT, then LOAD_INPUT, then per batch ENCODE,
\* GENERATE, DECODE, APPEND_TO_OUTPUT, then DONE.
C5_CheckpointFirst == PhaseOrder("LOAD_CHECKPOINT", "LOAD_INPUT")

\* C5, amended: every run passes through LOAD_INPUT, then LOAD_CHECKPOINT,
\* then per batch ENCODE, GENERATE, DECODE, APPEND_TO_OUTPUT, then DONE; an
\* exception may end it after any phase.
C5_InputFirst == PhaseOrder("LOAD_INPUT", "LOAD_CHECKPOINT")

C5_Witness ==
  /\ pc = "DONE"
  /\ Len(taken) >= 2

\* C6: every batch but the last holds --eval_batch_size examples and none
\* holds more, and every generate call is given --max_seq_length as its
\* max_length.
C6_ConfigHonoured ==
  /\ \A j \in 1..Len(taken) :
       /\ Len(taken[j]) <= args.eval_batch_size
       /\ (j < Len(taken)) => Len(taken[j]) = args.eval_batch_size
  /\ (pc = "GENERATING") => gen_max_length = args.max_seq_length

\* C7: the batches taken are consecutive slices of the input of one fixed
\* size: the j-th holds examples (j-1)*B+1 onwards, in order, B of them
\* unless it is the last, which holds 1..B and ends at the last example; at
\* DONE every example has been in exactly one batch.
C7_Partition ==
  /\ Len(taken) = k
  /\ \A j \in 1..Len(taken) :
       /\ Len(taken[j]) \in 1..BatchSize
       /\ \A i \in 1..Len(taken[j]) : taken[j][i] = (j - 1) * BatchSize + i
       /\ taken[j][Len(taken[j])] <= num_lines
       /\ (j < Len(taken)) => Len(taken[j]) = BatchSize
       /\ (Len(taken[j]) < BatchSize) => taken[j][Len(taken[j])] = num_lines
  /\ (pc = "DONE") =>
       \A e \in 1..num_lines :
         \E j \in 1..Len(taken) : \E i \in 1..Len(taken[j]) : taken[j][i] = e
  /\ \A j \in 1..Len(taken) : HasEvent("ENCODE", j)

C7_Witness ==
  /\ pc = "DONE"
  /\ Len(taken) >= 2
  /\ Len(taken[Len(taken)]) < BatchSize

\* C8: whatever the loader's workers have collated ahead, the driver has at
\* most one batch between its generate call and its append, generate is not
\* called for a batch before the lines of the batch before it are in the
\* file, and the file holds whole batches in order.
C8_OneBatchAtATime ==
  /\ Cardinality({b \in 1..k : HasEvent("GENERATE", b)
                                 /\ ~HasEvent("APPEND_TO_OUTPUT", b)}) <= 1
  /\ \A b \in 2..k : HasEvent("GENERATE", b) => HasEvent("APPEND_TO_OUTPUT", b - 1)
  /\ (pc \in BatchPhases) => file = file0 \o Preds(1, (k - 1) * BatchSize)
  /\ \E m \in 0..k : file = file0 \o Preds(1, Min(m * BatchSize, num_lines))

C8_Witness ==
  /\ pc = "GENERATING"
  /\ k = 1
  /\ 2 \in produced
  /\ num_lines > BatchSize

\* C9: once startup has succeeded the run ends, in DONE unless an exception
\* aborted it; at DONE it has taken and written ceil(N/B) batches (none, and
\* the file untouched, when N = 0); and only the return or the failure of the
\* generate call takes the driver out of that call.
C9_Terminates ==
  /\ (pc \in LoopPcs) ~> (pc = "DONE" \/ (pc = "ABORTED" /\ error # "none"))
  /\ [](pc = "DONE" =>
          /\ k * BatchSize >= num_lines
          /\ (k - 1) * BatchSize < num_lines
          /\ (num_lines = 0 => (k = 0 /\ file = file0))
          /\ \A b \in 1..k : HasEvent("APPEND_TO_OUTPUT", b))
  /\ [][pc = "GENERATING" => pc' \in {"GENERATING", "DECODE", "ABORTED"}]_vars

C9_Witness ==
  /\ pc = "DONE"
  /\ k >= 2
  /\ num_lines % BatchSize # 0

\* C10: lines reach the file batch by batch: between iterations and at DONE
\* the file is its content at the start of the run followed by the lines of
\* the batches taken so far, and a run aborted by generate or decode on batch
\* k leaves the lines of batches 1..k-1 and none of batch k.
C10_BatchwiseWrite ==
  /\ (pc \in {"ENCODE", "DONE"}) =>
       file = file0 \o Preds(1, Min(k * BatchSize, num_lines))
  /\ (pc = "ABORTED" /\ error \in {"generate", "decode"}) =>
       /\ k >= 1
       /\ file = file0 \o Preds(1, (k - 1) * BatchSize)

C10_Witness ==
  /\ pc = "ABORTED"
  /\ error = "decode"
  /\ k = 2

====
